---- MODULE Spec2Model ----
(***************************************************************************)
(* Model of the pthreads synchronisation-variable layer of the Chapel      *)
(* runtime: the access macros of chpl_cfg_threads.h over one sync variable *)
(* (full/empty) and one single variable (write-once).                      *)
(*                                                                         *)
(* The macros are translated statement by statement.  The functions they   *)
(* call (chpl_sync_lock, chpl_sync_wait_full_and_lock, ...,  chpl_error)   *)
(* live in runtime files that are not part of the sources at hand; they    *)
(* are modelled from the design document (sections 4.1, 4.3, 6, 7).        *)
(***************************************************************************)
EXTENDS Integers, Sequences, FiniteSets, TLC

\* ---------------------------------------------------------------- bounds
NumTasks == 3      \* concurrently executing tasks, one macro invocation each

\* the value _chpl_sync_reset and _chpl_single_reset store
DefaultValue == 0

Tasks  == 1..NumTasks
Values == {1, 2}   \* payloads written; distinct from the default

VARIABLES
  syncvar,    \* the _syncvar: value and its chpl_sync_aux_t
  singlevar,  \* the _singlevar: value and its chpl_single_aux_t
  valid,      \* FALSE once the cell's mutex is destroyed or corrupt
  stale,      \* single variable: the value its latest store overwrote
  synced,     \* single variable: tasks the latest store happens-before
  pc,         \* per task: where it is inside the macro it executes
  op,         \* per task: the macro it executes (or executed last)
  x,          \* per task: the destination variable of its read macros
  y,          \* per task: the value argument of its write macro
  rv,         \* per task: what the locking function returned
  err,        \* per task: message its call gave to chpl_error ("" if none)
  fatal,      \* message given to chpl_internal_error ("" while running)
  returned,   \* the tasks whose call has returned, in the order of return
  stored,     \* values stored in the sync variable by _chpl_write_EF, in order
  taken,      \* values returned by _chpl_read_FE, in order
  swrites     \* stores of _chpl_single_write_EF since the latest reset

cellVars == <<syncvar, singlevar, valid, stale, synced>>
taskVars == <<pc, op, x, y, rv, err>>
histVars == <<fatal, returned, stored, taken, swrites>>
vars == <<syncvar, singlevar, valid, stale, synced,
          pc, op, x, y, rv, err, fatal, returned, stored, taken, swrites>>

\* ------------------------------------------------------------------ Init
\* A sync variable and a single variable as declared: Empty, default
\* payload, lock free, nobody waiting; every task outside any macro.
Init ==
  /\ syncvar = [value |-> DefaultValue, is_full |-> FALSE, lock |-> {},
                signal_full |-> {}, signal_empty |-> {}]
  /\ singlevar = [value |-> DefaultValue, is_full |-> FALSE, lock |-> {},
                  signal_full |-> {}]
  /\ valid = TRUE
  /\ stale = DefaultValue
  /\ synced = Tasks
  /\ pc = [t \in Tasks |-> "idle"]
  /\ op = [t \in Tasks |-> "none"]
  /\ x = [t \in Tasks |-> DefaultValue]
  /\ y = [t \in Tasks |-> DefaultValue]
  /\ rv = [t \in Tasks |-> 0]
  /\ err = [t \in Tasks |-> ""]
  /\ fatal = ""
  /\ returned = <<>>
  /\ stored = <<>>
  /\ taken = <<>>
  /\ swrites = 0

\* --------------------------------------------------------- call / return
\* Task t, not started yet, enters macro o with argument v; the macro's
\* first statement is a call of the function whose entry point is `entry`.
Invoke(t, o, entry, v) ==
  /\ pc[t] = "idle"
  /\ op' = [op EXCEPT ![t] = o]
  /\ y' = [y EXCEPT ![t] = v]
  /\ err' = [err EXCEPT ![t] = ""]
  /\ pc' = [pc EXCEPT ![t] = entry]

\* Control leaves the macro and is back in the caller; the task is over.
Return(t) ==
  /\ pc' = [pc EXCEPT ![t] = "done"]
  /\ returned' = Append(returned, t)

\* Task u is blocked in a condition wait.
Blocked(u) ==
  \/ pc[u] = "cond_wait_full" /\ u \in syncvar.signal_full
  \/ pc[u] = "cond_wait_empty" /\ u \in syncvar.signal_empty

\* Calls are issued one after the other: t's caller invokes only when
\* every other call so far has returned or is blocked.
Quiet(t) ==
  \A u \in Tasks \ {t} : pc[u] \in {"idle", "done"} \/ Blocked(u)

\* ============================================================ primitives
\* chpl_sync_lock: acquire the lock, blocking; non-zero on a mutex fault.
chpl_sync_lock(t) ==
  /\ pc[t] = "sync_lock"
  /\ IF valid
       THEN /\ syncvar.lock = {}
            /\ syncvar' = [syncvar EXCEPT !.lock = {t}]
            /\ rv' = [rv EXCEPT ![t] = 0]
       ELSE /\ rv' = [rv EXCEPT ![t] = 22]
            /\ UNCHANGED syncvar
  /\ pc' = [pc EXCEPT ![t] = "returned"]
  /\ UNCHANGED <<singlevar, valid, stale, synced, op, x, y, err>>
  /\ UNCHANGED histVars

\* chpl_sync_unlock: release the lock; the macro is over.
chpl_sync_unlock(t) ==
  /\ pc[t] = "sync_unlock"
  /\ syncvar' = [syncvar EXCEPT !.lock = @ \ {t}]
  /\ Return(t)
  /\ UNCHANGED <<singlevar, valid, stale, synced, op, x, y, rv, err>>
  /\ UNCHANGED <<fatal, stored, taken, swrites>>

\* chpl_sync_wait_full_and_lock: acquire the lock; while the state is
\* Empty release it and block on signal_full, reacquire on wake; return 0
\* with the lock held once the state is Full.
chpl_sync_wait_full_and_lock(t) ==
  /\ UNCHANGED <<singlevar, valid, stale, synced, op, x, y, err>>
  /\ UNCHANGED histVars
  /\ \/ /\ pc[t] = "wait_full_and_lock"
        /\ IF valid
             THEN /\ syncvar.lock = {}
                  /\ syncvar' = [syncvar EXCEPT !.lock = {t}]
                  /\ pc' = [pc EXCEPT ![t] = "wait_full"]
                  /\ UNCHANGED rv
             ELSE /\ rv' = [rv EXCEPT ![t] = 22]
                  /\ pc' = [pc EXCEPT ![t] = "returned"]
                  /\ UNCHANGED syncvar
     \/ /\ pc[t] = "wait_full"
        /\ IF syncvar.is_full
             THEN /\ rv' = [rv EXCEPT ![t] = 0]
                  /\ pc' = [pc EXCEPT ![t] = "returned"]
                  /\ UNCHANGED syncvar
             ELSE /\ syncvar' = [syncvar EXCEPT !.lock = @ \ {t},
                                               !.signal_full = @ \cup {t}]
                  /\ pc' = [pc EXCEPT ![t] = "cond_wait_full"]
                  /\ UNCHANGED rv
     \/ /\ pc[t] = "cond_wait_full"
        /\ t \notin syncvar.signal_full
        /\ syncvar.lock = {}
        /\ syncvar' = [syncvar EXCEPT !.lock = {t}]
        /\ pc' = [pc EXCEPT ![t] = "wait_full"]
        /\ UNCHANGED rv

\* chpl_sync_wait_empty_and_lock: symmetric, waiting for Empty on
\* signal_empty.
chpl_sync_wait_empty_and_lock(t) ==
  /\ UNCHANGED <<singlevar, valid, stale, synced, op, x, y, err>>
  /\ UNCHANGED histVars
  /\ \/ /\ pc[t] = "wait_empty_and_lock"
        /\ IF valid
             THEN /\ syncvar.lock = {}
                  /\ syncvar' = [syncvar EXCEPT !.lock = {t}]
                  /\ pc' = [pc EXCEPT ![t] = "wait_empty"]
                  /\ UNCHANGED rv
             ELSE /\ rv' = [rv EXCEPT ![t] = 22]
                  /\ pc' = [pc EXCEPT ![t] = "returned"]
                  /\ UNCHANGED syncvar
     \/ /\ pc[t] = "wait_empty"
        /\ IF ~syncvar.is_full
             THEN /\ rv' = [rv EXCEPT ![t] = 0]
                  /\ pc' = [pc EXCEPT ![t] = "returned"]
                  /\ UNCHANGED syncvar
             ELSE /\ syncvar' = [syncvar EXCEPT !.lock = @ \ {t},
                                               !.signal_empty = @ \cup {t}]
                  /\ pc' = [pc EXCEPT ![t] = "cond_wait_empty"]
                  /\ UNCHANGED rv
     \/ /\ pc[t] = "cond_wait_empty"
        /\ t \notin syncvar.signal_empty
        /\ syncvar.lock = {}
        /\ syncvar' = [syncvar EXCEPT !.lock = {t}]
        /\ pc' = [pc EXCEPT ![t] = "wait_empty"]
        /\ UNCHANGED rv

\* chpl_sync_mark_and_signal_full: lock held; set the state Full and wake
\* all waiters on signal_full; the release of the lock follows
\* (chpl_sync_unlock).
chpl_sync_mark_and_signal_full(t) ==
  /\ UNCHANGED <<singlevar, valid, stale, synced, op, x, y, rv, err>>
  /\ UNCHANGED histVars
  /\ pc[t] = "mark_full"
  /\ syncvar' = [syncvar EXCEPT !.is_full = TRUE, !.signal_full = {}]
  /\ pc' = [pc EXCEPT ![t] = "sync_unlock"]

\* chpl_sync_mark_and_signal_empty: lock held; set the state Empty and wake
\* all waiters on signal_empty; the release of the lock follows.
chpl_sync_mark_and_signal_empty(t) ==
  /\ UNCHANGED <<singlevar, valid, stale, synced, op, x, y, rv, err>>
  /\ UNCHANGED histVars
  /\ pc[t] = "mark_empty"
  /\ syncvar' = [syncvar EXCEPT !.is_full = FALSE, !.signal_empty = {}]
  /\ pc' = [pc EXCEPT ![t] = "sync_unlock"]

\* A condition wait may end without a signal (pthread_cond_wait).
SpuriousWakeup(t) ==
  /\ pc[t] \in {"cond_wait_full", "cond_wait_empty"}
  /\ t \in syncvar.signal_full \cup syncvar.signal_empty
  /\ syncvar' = [syncvar EXCEPT !.signal_full = @ \ {t},
                                !.signal_empty = @ \ {t}]
  /\ UNCHANGED <<singlevar, valid, stale, synced>>
  /\ UNCHANGED taskVars
  /\ UNCHANGED histVars

\* chpl_internal_error: fatal, the process (every task of it) is gone.
chpl_internal_error(msg) ==
  /\ fatal' = msg
  /\ pc' = [u \in Tasks |-> "aborted"]

\* ======================================================= SyncCell macros
\* Each macro is its invocation (the call of its locking function) and its
\* body (the statements after that call returned).

\* Mutant: _chpl_read_FE takes the lock without waiting for Full (the
\* locking call of _chpl_read_XX).
call_read_FE_no_wait(t) ==
  /\ Invoke(t, "read_FE", "sync_lock", y[t])
  /\ UNCHANGED <<x, rv>>
  /\ UNCHANGED cellVars
  /\ UNCHANGED histVars

call_read_FE(t) ==
  /\ Invoke(t, "read_FE", "wait_full_and_lock", y[t])
  /\ UNCHANGED <<x, rv>>
  /\ UNCHANGED cellVars
  /\ UNCHANGED histVars

\* Mutant: the body of _chpl_read_FF pasted into _chpl_read_FE (the state
\* is marked Full again instead of Empty).
_chpl_read_FE_marks_full(t) ==
  /\ pc[t] = "returned" /\ op[t] = "read_FE"
  /\ IF rv[t] = 0
       THEN /\ x' = [x EXCEPT ![t] = syncvar.value]
            /\ taken' = Append(taken, syncvar.value)
            /\ pc' = [pc EXCEPT ![t] = "mark_full"]
            /\ UNCHANGED returned
       ELSE /\ Return(t)
            /\ UNCHANGED <<x, taken>>
  /\ UNCHANGED <<op, y, rv, err, fatal, stored, swrites>>
  /\ UNCHANGED cellVars

_chpl_read_FE(t) ==
  /\ pc[t] = "returned" /\ op[t] = "read_FE"
  /\ IF rv[t] = 0
       THEN /\ x' = [x EXCEPT ![t] = syncvar.value]
            /\ taken' = Append(taken, syncvar.value)
            /\ pc' = [pc EXCEPT ![t] = "mark_empty"]
            /\ UNCHANGED returned
       ELSE /\ Return(t)
            /\ UNCHANGED <<x, taken>>
  /\ UNCHANGED <<op, y, rv, err, fatal, stored, swrites>>
  /\ UNCHANGED cellVars

call_read_FF(t) ==
  /\ Invoke(t, "read_FF", "wait_full_and_lock", y[t])
  /\ UNCHANGED <<x, rv>>
  /\ UNCHANGED cellVars
  /\ UNCHANGED histVars

\* Mutant: the body of _chpl_read_FE pasted into _chpl_read_FF (the state
\* is marked Empty).
_chpl_read_FF_marks_empty(t) ==
  /\ pc[t] = "returned" /\ op[t] = "read_FF"
  /\ IF rv[t] = 0
       THEN /\ x' = [x EXCEPT ![t] = syncvar.value]
            /\ pc' = [pc EXCEPT ![t] = "mark_empty"]
            /\ UNCHANGED returned
       ELSE /\ Return(t)
            /\ UNCHANGED x
  /\ UNCHANGED <<op, y, rv, err, fatal, stored, taken, swrites>>
  /\ UNCHANGED cellVars

_chpl_read_FF(t) ==
  /\ pc[t] = "returned" /\ op[t] = "read_FF"
  /\ IF rv[t] = 0
       THEN /\ x' = [x EXCEPT ![t] = syncvar.value]
            /\ pc' = [pc EXCEPT ![t] = "mark_full"]
            /\ UNCHANGED returned
       ELSE /\ Return(t)
            /\ UNCHANGED x
  /\ UNCHANGED <<op, y, rv, err, fatal, stored, taken, swrites>>
  /\ UNCHANGED cellVars

\* Mutant: _chpl_read_XX without the chpl_sync_lock call.
call_read_XX_no_lock(t) ==
  /\ Invoke(t, "read_XX", "returned", y[t])
  /\ rv' = [rv EXCEPT ![t] = 0]
  /\ UNCHANGED x
  /\ UNCHANGED cellVars
  /\ UNCHANGED histVars

call_read_XX(t) ==
  /\ Invoke(t, "read_XX", "sync_lock", y[t])
  /\ UNCHANGED <<x, rv>>
  /\ UNCHANGED cellVars
  /\ UNCHANGED histVars

\* Mutant: _chpl_read_XX ends like _chpl_read_FE, with
\* chpl_sync_mark_and_signal_empty instead of chpl_sync_unlock.
_chpl_read_XX_marks_empty(t) ==
  /\ pc[t] = "returned" /\ op[t] = "read_XX"
  /\ IF rv[t] = 0
       THEN /\ x' = [x EXCEPT ![t] = syncvar.value]
            /\ pc' = [pc EXCEPT ![t] = "mark_empty"]
            /\ UNCHANGED returned
       ELSE /\ Return(t)
            /\ UNCHANGED x
  /\ UNCHANGED <<op, y, rv, err, fatal, stored, taken, swrites>>
  /\ UNCHANGED cellVars

_chpl_read_XX(t) ==
  /\ pc[t] = "returned" /\ op[t] = "read_XX"
  /\ IF rv[t] = 0
       THEN /\ x' = [x EXCEPT ![t] = syncvar.value]
            /\ pc' = [pc EXCEPT ![t] = "sync_unlock"]
            /\ UNCHANGED returned
       ELSE /\ Return(t)
            /\ UNCHANGED x
  /\ UNCHANGED <<op, y, rv, err, fatal, stored, taken, swrites>>
  /\ UNCHANGED cellVars

\* Mutant: _chpl_write_EF takes the lock without waiting for Empty (the
\* locking call of _chpl_write_XF).
call_write_EF_no_wait(t, v) ==
  /\ Invoke(t, "write_EF", "sync_lock", v)
  /\ UNCHANGED <<x, rv>>
  /\ UNCHANGED cellVars
  /\ UNCHANGED histVars

call_write_EF(t, v) ==
  /\ Invoke(t, "write_EF", "wait_empty_and_lock", v)
  /\ UNCHANGED <<x, rv>>
  /\ UNCHANGED cellVars
  /\ UNCHANGED histVars

\* Mutant: _chpl_write_EF marks the cell Full without the assignment
\* (x)->value = (y).
_chpl_write_EF_no_store(t) ==
  /\ pc[t] = "returned" /\ op[t] = "write_EF"
  /\ IF rv[t] = 0
       THEN /\ pc' = [pc EXCEPT ![t] = "mark_full"]
            /\ UNCHANGED <<syncvar, stored, fatal>>
       ELSE /\ chpl_internal_error("invalid mutex in _chpl_write_EF")
            /\ UNCHANGED <<syncvar, stored>>
  /\ UNCHANGED <<singlevar, valid, stale, synced>>
  /\ UNCHANGED <<op, x, y, rv, err, returned, taken, swrites>>

\* Mutant: _chpl_write_EF ends with chpl_sync_unlock instead of
\* chpl_sync_mark_and_signal_full.
_chpl_write_EF_unlock_only(t) ==
  /\ pc[t] = "returned" /\ op[t] = "write_EF"
  /\ IF rv[t] = 0
       THEN /\ syncvar' = [syncvar EXCEPT !.value = y[t]]
            /\ stored' = Append(stored, y[t])
            /\ pc' = [pc EXCEPT ![t] = "sync_unlock"]
            /\ UNCHANGED fatal
       ELSE /\ chpl_internal_error("invalid mutex in _chpl_write_EF")
            /\ UNCHANGED <<syncvar, stored>>
  /\ UNCHANGED <<singlevar, valid, stale, synced>>
  /\ UNCHANGED <<op, x, y, rv, err, returned, taken, swrites>>

_chpl_write_EF(t) ==
  /\ pc[t] = "returned" /\ op[t] = "write_EF"
  /\ IF rv[t] = 0
       THEN /\ syncvar' = [syncvar EXCEPT !.value = y[t]]
            /\ stored' = Append(stored, y[t])
            /\ pc' = [pc EXCEPT ![t] = "mark_full"]
            /\ UNCHANGED fatal
       ELSE /\ chpl_internal_error("invalid mutex in _chpl_write_EF")
            /\ UNCHANGED <<syncvar, stored>>
  /\ UNCHANGED <<singlevar, valid, stale, synced>>
  /\ UNCHANGED <<op, x, y, rv, err, returned, taken, swrites>>

call_write_FF(t, v) ==
  /\ Invoke(t, "write_FF", "wait_full_and_lock", v)
  /\ UNCHANGED <<x, rv>>
  /\ UNCHANGED cellVars
  /\ UNCHANGED histVars

\* Mutant: _chpl_write_FF ends with chpl_sync_mark_and_signal_empty.
_chpl_write_FF_marks_empty(t) ==
  /\ pc[t] = "returned" /\ op[t] = "write_FF"
  /\ IF rv[t] = 0
       THEN /\ syncvar' = [syncvar EXCEPT !.value = y[t]]
            /\ pc' = [pc EXCEPT ![t] = "mark_empty"]
            /\ UNCHANGED fatal
       ELSE /\ chpl_internal_error("invalid mutex in _chpl_write_FF")
            /\ UNCHANGED syncvar
  /\ UNCHANGED <<singlevar, valid, stale, synced>>
  /\ UNCHANGED <<op, x, y, rv, err, returned, stored, taken, swrites>>

_chpl_write_FF(t) ==
  /\ pc[t] = "returned" /\ op[t] = "write_FF"
  /\ IF rv[t] = 0
       THEN /\ syncvar' = [syncvar EXCEPT !.value = y[t]]
            /\ pc' = [pc EXCEPT ![t] = "mark_full"]
            /\ UNCHANGED fatal
       ELSE /\ chpl_internal_error("invalid mutex in _chpl_write_FF")
            /\ UNCHANGED syncvar
  /\ UNCHANGED <<singlevar, valid, stale, synced>>
  /\ UNCHANGED <<op, x, y, rv, err, returned, stored, taken, swrites>>

\* Mutant: _chpl_write_XF waits for Empty (the locking call of
\* _chpl_write_EF).
call_write_XF_waits(t, v) ==
  /\ Invoke(t, "write_XF", "wait_empty_and_lock", v)
  /\ UNCHANGED <<x, rv>>
  /\ UNCHANGED cellVars
  /\ UNCHANGED histVars

call_write_XF(t, v) ==
  /\ Invoke(t, "write_XF", "sync_lock", v)
  /\ UNCHANGED <<x, rv>>
  /\ UNCHANGED cellVars
  /\ UNCHANGED histVars

\* Mutant: _chpl_write_XF has no else branch, as the read macros.
_chpl_write_XF_no_else(t) ==
  /\ pc[t] = "returned" /\ op[t] = "write_XF"
  /\ IF rv[t] = 0
       THEN /\ syncvar' = [syncvar EXCEPT !.value = y[t]]
            /\ pc' = [pc EXCEPT ![t] = "mark_full"]
            /\ UNCHANGED returned
       ELSE /\ Return(t)
            /\ UNCHANGED syncvar
  /\ UNCHANGED <<singlevar, valid, stale, synced>>
  /\ UNCHANGED <<op, x, y, rv, err, fatal, stored, taken, swrites>>

\* Mutant: _chpl_write_XF ends with chpl_sync_unlock instead of
\* chpl_sync_mark_and_signal_full.
_chpl_write_XF_unlock_only(t) ==
  /\ pc[t] = "returned" /\ op[t] = "write_XF"
  /\ IF rv[t] = 0
       THEN /\ syncvar' = [syncvar EXCEPT !.value = y[t]]
            /\ pc' = [pc EXCEPT ![t] = "sync_unlock"]
            /\ UNCHANGED fatal
       ELSE /\ chpl_internal_error("invalid mutex in _chpl_write_XF")
            /\ UNCHANGED syncvar
  /\ UNCHANGED <<singlevar, valid, stale, synced>>
  /\ UNCHANGED <<op, x, y, rv, err, returned, stored, taken, swrites>>

_chpl_write_XF(t) ==
  /\ pc[t] = "returned" /\ op[t] = "write_XF"
  /\ IF rv[t] = 0
       THEN /\ syncvar' = [syncvar EXCEPT !.value = y[t]]
            /\ pc' = [pc EXCEPT ![t] = "mark_full"]
            /\ UNCHANGED fatal
       ELSE /\ chpl_internal_error("invalid mutex in _chpl_write_XF")
            /\ UNCHANGED syncvar
  /\ UNCHANGED <<singlevar, valid, stale, synced>>
  /\ UNCHANGED <<op, x, y, rv, err, returned, stored, taken, swrites>>

call_sync_reset(t) ==
  /\ Invoke(t, "sync_reset", "sync_lock", y[t])
  /\ UNCHANGED <<x, rv>>
  /\ UNCHANGED cellVars
  /\ UNCHANGED histVars

\* Mutant: _chpl_sync_reset without the assignment (x)->value = 0.
_chpl_sync_reset_keeps_value(t) ==
  /\ pc[t] = "returned" /\ op[t] = "sync_reset"
  /\ IF rv[t] = 0
       THEN /\ pc' = [pc EXCEPT ![t] = "mark_empty"]
            /\ UNCHANGED <<syncvar, fatal>>
       ELSE /\ chpl_internal_error("invalid mutex in _chpl_sync_reset")
            /\ UNCHANGED syncvar
  /\ UNCHANGED <<singlevar, valid, stale, synced>>
  /\ UNCHANGED <<op, x, y, rv, err, returned, stored, taken, swrites>>

\* Mutant: _chpl_sync_reset clears is_full itself, as _chpl_single_reset
\* does, and ends with chpl_sync_unlock: nobody is signalled.
_chpl_sync_reset_unsignalled(t) ==
  /\ pc[t] = "returned" /\ op[t] = "sync_reset"
  /\ IF rv[t] = 0
       THEN /\ syncvar' = [syncvar EXCEPT !.value = DefaultValue,
                                          !.is_full = FALSE]
            /\ pc' = [pc EXCEPT ![t] = "sync_unlock"]
            /\ UNCHANGED fatal
       ELSE /\ chpl_internal_error("invalid mutex in _chpl_sync_reset")
            /\ UNCHANGED syncvar
  /\ UNCHANGED <<singlevar, valid, stale, synced>>
  /\ UNCHANGED <<op, x, y, rv, err, returned, stored, taken, swrites>>

_chpl_sync_reset(t) ==
  /\ pc[t] = "returned" /\ op[t] = "sync_reset"
  /\ IF rv[t] = 0
       THEN /\ syncvar' = [syncvar EXCEPT !.value = DefaultValue]
            /\ pc' = [pc EXCEPT ![t] = "mark_empty"]
            /\ UNCHANGED fatal
       ELSE /\ chpl_internal_error("invalid mutex in _chpl_sync_reset")
            /\ UNCHANGED syncvar
  /\ UNCHANGED <<singlevar, valid, stale, synced>>
  /\ UNCHANGED <<op, x, y, rv, err, returned, stored, taken, swrites>>

\* ===================================================== SingleCell layer
\* What an access outside the lock may observe.  The fast path of
\* _chpl_single_read_FF reads is_full and value with no lock held while
\* _chpl_single_write_EF may be storing them: a task the store does not
\* happen-before may still see what was there before it.
IsFullViews(t) ==
  {singlevar.is_full} \cup (IF t \in synced THEN {} ELSE {FALSE})

ValueViews(t) ==
  {singlevar.value} \cup (IF t \in synced THEN {} ELSE {stale})

\* chpl_single_lock: acquire the lock, blocking; non-zero on a mutex fault.
\* Acquiring the lock orders the task after every earlier critical section.
chpl_single_lock(t) ==
  /\ pc[t] = "single_lock"
  /\ IF valid
       THEN /\ singlevar.lock = {}
            /\ singlevar' = [singlevar EXCEPT !.lock = {t}]
            /\ synced' = synced \cup {t}
            /\ rv' = [rv EXCEPT ![t] = 0]
       ELSE /\ rv' = [rv EXCEPT ![t] = 22]
            /\ UNCHANGED <<singlevar, synced>>
  /\ pc' = [pc EXCEPT ![t] = "returned"]
  /\ UNCHANGED <<syncvar, valid, stale, op, x, y, err>>
  /\ UNCHANGED histVars

\* chpl_single_wait_full: acquire the lock; while the state is Empty
\* release it and block on signal_full, reacquire on wake; return 0 with
\* the lock held once the state is Full.
chpl_single_wait_full(t) ==
  /\ UNCHANGED <<syncvar, valid, stale, op, x, y, err>>
  /\ UNCHANGED histVars
  /\ \/ /\ pc[t] = "single_wait_full"
        /\ IF valid
             THEN /\ singlevar.lock = {}
                  /\ singlevar' = [singlevar EXCEPT !.lock = {t}]
                  /\ synced' = synced \cup {t}
                  /\ pc' = [pc EXCEPT ![t] = "single_test_full"]
                  /\ UNCHANGED rv
             ELSE /\ rv' = [rv EXCEPT ![t] = 22]
                  /\ pc' = [pc EXCEPT ![t] = "returned"]
                  /\ UNCHANGED <<singlevar, synced>>
     \/ /\ pc[t] = "single_test_full"
        /\ IF singlevar.is_full
             THEN /\ rv' = [rv EXCEPT ![t] = 0]
                  /\ pc' = [pc EXCEPT ![t] = "returned"]
                  /\ UNCHANGED singlevar
             ELSE /\ singlevar' = [singlevar EXCEPT !.lock = @ \ {t},
                                                   !.signal_full = @ \cup {t}]
                  /\ pc' = [pc EXCEPT ![t] = "single_cond_wait"]
                  /\ UNCHANGED rv
        /\ UNCHANGED synced
     \/ /\ pc[t] = "single_cond_wait"
        /\ t \notin singlevar.signal_full
        /\ singlevar.lock = {}
        /\ singlevar' = [singlevar EXCEPT !.lock = {t}]
        /\ synced' = synced \cup {t}
        /\ pc' = [pc EXCEPT ![t] = "single_test_full"]
        /\ UNCHANGED rv

\* chpl_single_mark_and_signal_full: lock held; set the state Full and
\* wake all waiters on signal_full, then release the lock.
chpl_single_mark_and_signal_full(t) ==
  /\ UNCHANGED <<syncvar, valid, stale, synced, op, x, y, rv, err>>
  /\ UNCHANGED <<fatal, stored, taken, swrites>>
  /\ \/ /\ pc[t] = "single_mark_full"
        /\ singlevar' = [singlevar EXCEPT !.is_full = TRUE,
                                          !.signal_full = {}]
        /\ pc' = [pc EXCEPT ![t] = "single_unlock"]
        /\ UNCHANGED returned
     \/ /\ pc[t] = "single_unlock"
        /\ singlevar' = [singlevar EXCEPT !.lock = @ \ {t}]
        /\ Return(t)

\* A condition wait may end without a signal (pthread_cond_wait).
SingleSpuriousWakeup(t) ==
  /\ pc[t] = "single_cond_wait"
  /\ t \in singlevar.signal_full
  /\ singlevar' = [singlevar EXCEPT !.signal_full = @ \ {t}]
  /\ UNCHANGED <<syncvar, valid, stale, synced>>
  /\ UNCHANGED taskVars
  /\ UNCHANGED histVars

\* chpl_error: report a recoverable error; control returns to the caller.
chpl_error(t, msg) ==
  err' = [err EXCEPT ![t] = msg]

call_single_read_FF(t) ==
  /\ Invoke(t, "single_read_FF", "single_is_full", y[t])
  /\ UNCHANGED <<x, rv>>
  /\ UNCHANGED cellVars
  /\ UNCHANGED histVars

_chpl_single_read_FF(t) ==
  /\ op[t] = "single_read_FF"
  /\ UNCHANGED <<syncvar, singlevar, valid, stale, synced>>
  /\ UNCHANGED <<op, y, rv, err, fatal, stored, taken, swrites>>
  /\ \/ /\ pc[t] = "single_is_full"
        /\ \E f \in IsFullViews(t) :
             pc' = [pc EXCEPT ![t] = IF f THEN "single_fast_read"
                                         ELSE "single_wait_full"]
        /\ UNCHANGED <<x, returned>>
     \/ /\ pc[t] = "single_fast_read"
        /\ \E v \in ValueViews(t) : x' = [x EXCEPT ![t] = v]
        /\ Return(t)
     \/ /\ pc[t] = "returned"
        /\ IF rv[t] = 0
             THEN /\ x' = [x EXCEPT ![t] = singlevar.value]
                  /\ pc' = [pc EXCEPT ![t] = "single_mark_full"]
                  /\ UNCHANGED returned
             ELSE /\ Return(t)
                  /\ UNCHANGED x

call_single_write_EF(t, v) ==
  /\ Invoke(t, "single_write_EF", "single_lock", v)
  /\ UNCHANGED <<x, rv>>
  /\ UNCHANGED cellVars
  /\ UNCHANGED histVars

\* Mutant: _chpl_single_write_EF without the chpl_single_is_full test.
_chpl_single_write_EF_unchecked(t) ==
  /\ pc[t] = "returned" /\ op[t] = "single_write_EF"
  /\ UNCHANGED <<syncvar, valid, op, x, y, rv, stored, taken>>
  /\ IF rv[t] = 0
       THEN /\ singlevar' = [singlevar EXCEPT !.value = y[t]]
            /\ stale' = singlevar.value
            /\ synced' = {t}
            /\ swrites' = swrites + 1
            /\ pc' = [pc EXCEPT ![t] = "single_mark_full"]
            /\ UNCHANGED <<err, fatal, returned>>
       ELSE /\ chpl_internal_error("invalid mutex in _chpl_single_write_EF")
            /\ UNCHANGED <<singlevar, stale, synced, swrites, err, returned>>

_chpl_single_write_EF(t) ==
  /\ pc[t] = "returned" /\ op[t] = "single_write_EF"
  /\ UNCHANGED <<syncvar, valid, op, x, y, rv, stored, taken>>
  /\ IF rv[t] = 0
       THEN IF singlevar.is_full
              THEN /\ chpl_error(t, "single var already defined")
                   /\ Return(t)
                   /\ UNCHANGED <<singlevar, stale, synced, swrites, fatal>>
              ELSE /\ singlevar' = [singlevar EXCEPT !.value = y[t]]
                   /\ stale' = singlevar.value
                   /\ synced' = {t}
                   /\ swrites' = swrites + 1
                   /\ pc' = [pc EXCEPT ![t] = "single_mark_full"]
                   /\ UNCHANGED <<err, fatal, returned>>
       ELSE /\ chpl_internal_error("invalid mutex in _chpl_single_write_EF")
            /\ UNCHANGED <<singlevar, stale, synced, swrites, err, returned>>

\* _chpl_single_reset takes no lock; its caller guarantees that no task
\* is using the cell meanwhile and that its effect is ordered before any
\* later use.
_chpl_single_reset ==
  /\ \A u \in Tasks : pc[u] \in {"idle", "done"}
  /\ singlevar' = [singlevar EXCEPT !.value = DefaultValue,
                                    !.is_full = FALSE]
  /\ stale' = DefaultValue
  /\ synced' = Tasks
  /\ swrites' = 0
  /\ UNCHANGED <<syncvar, valid>>
  /\ UNCHANGED taskVars
  /\ UNCHANGED <<fatal, returned, stored, taken>>

\* ======================================================== specifications
\* Steps of the blocking primitives and macro bodies of the sync variable.
SyncStep(t) ==
  \/ chpl_sync_lock(t)
  \/ chpl_sync_unlock(t)
  \/ chpl_sync_wait_full_and_lock(t)
  \/ chpl_sync_wait_empty_and_lock(t)
  \/ chpl_sync_mark_and_signal_full(t)
  \/ chpl_sync_mark_and_signal_empty(t)
  \/ SpuriousWakeup(t)
  \/ _chpl_read_FE(t)
  \/ _chpl_read_FF(t)
  \/ _chpl_read_XX(t)
  \/ _chpl_write_EF(t)
  \/ _chpl_write_FF(t)
  \/ _chpl_write_XF(t)
  \/ _chpl_sync_reset(t)

SyncCall(t) ==
  \/ call_read_FE(t)
  \/ call_read_FF(t)
  \/ call_read_XX(t)
  \/ \E v \in Values : call_write_EF(t, v)
  \/ \E v \in Values : call_write_FF(t, v)
  \/ \E v \in Values : call_write_XF(t, v)
  \/ call_sync_reset(t)

\* Any task may invoke any SyncCell operation at any time.
Next ==
  \E t \in Tasks : SyncCall(t) \/ SyncStep(t)

Spec == Init /\ [][Next]_vars

\* The same operations, issued one after the other.
NextSeq ==
  \E t \in Tasks : (Quiet(t) /\ SyncCall(t)) \/ SyncStep(t)

SpecSeq == Init /\ [][NextSeq]_vars

\* Steps of the hand-off pair _chpl_write_EF / _chpl_read_FE.
HandoffStep(t) ==
  \/ chpl_sync_unlock(t)
  \/ chpl_sync_wait_full_and_lock(t)
  \/ chpl_sync_wait_empty_and_lock(t)
  \/ chpl_sync_mark_and_signal_full(t)
  \/ chpl_sync_mark_and_signal_empty(t)
  \/ SpuriousWakeup(t)
  \/ _chpl_read_FE(t)
  \/ _chpl_write_EF(t)

\* Producers and consumers only: any number of tasks doing writeEF and
\* tasks doing readFE.
NextHandoff ==
  \E t \in Tasks :
    \/ call_read_FE(t)
    \/ \E v \in Values : call_write_EF(t, v)
    \/ HandoffStep(t)

SpecHandoff == Init /\ [][NextHandoff]_vars

\* What a task does once it is inside _chpl_write_EF or _chpl_read_FF
\* (a wait ending without a signal is possible, never owed).
FFProgress(t) ==
  \/ chpl_sync_unlock(t)
  \/ chpl_sync_wait_full_and_lock(t)
  \/ chpl_sync_wait_empty_and_lock(t)
  \/ chpl_sync_mark_and_signal_full(t)
  \/ _chpl_read_FF(t)
  \/ _chpl_write_EF(t)

\* One writeEF and any number of readFF, in any order.
NextFF ==
  \E t \in Tasks :
    \/ call_read_FF(t)
    \/ /\ \A u \in Tasks : op[u] # "write_EF"
       /\ \E v \in Values : call_write_EF(t, v)
    \/ FFProgress(t)
    \/ SpuriousWakeup(t)

\* Fair scheduling: a task that can take a step again and again does.
SpecFF ==
  /\ Init /\ [][NextFF]_vars
  /\ \A t \in Tasks : SF_vars(FFProgress(t))

\* Steps of the primitives and macro bodies of the single variable.
SingleStep(t) ==
  \/ chpl_single_lock(t)
  \/ chpl_single_wait_full(t)
  \/ chpl_single_mark_and_signal_full(t)
  \/ SingleSpuriousWakeup(t)
  \/ _chpl_single_read_FF(t)
  \/ _chpl_single_write_EF(t)

\* Any task may read or write the single variable at any time; resets
\* happen when no task is inside a macro.
NextSingle ==
  \/ \E t \in Tasks : call_single_read_FF(t)
  \/ \E t \in Tasks : \E v \in Values : call_single_write_EF(t, v)
  \/ \E t \in Tasks : SingleStep(t)
  \/ _chpl_single_reset

SpecSingle == Init /\ [][NextSingle]_vars

\* What a task does once it is inside a SingleCell macro (a wait ending
\* without a signal is possible, never owed).
SingleProgress(t) ==
  \/ chpl_single_lock(t)
  \/ chpl_single_wait_full(t)
  \/ chpl_single_mark_and_signal_full(t)
  \/ _chpl_single_read_FF(t)
  \/ _chpl_single_write_EF(t)

\* One use of the single variable (no reset), under fair scheduling.
NextSingleUse ==
  \E t \in Tasks :
    \/ call_single_read_FF(t)
    \/ \E v \in Values : call_single_write_EF(t, v)
    \/ SingleProgress(t)
    \/ SingleSpuriousWakeup(t)

SpecSingleUse ==
  /\ Init /\ [][NextSingleUse]_vars
  /\ \A t \in Tasks : SF_vars(SingleProgress(t))

\* Invocations of the SingleCell macros.
SingleCall(t) ==
  \/ call_single_read_FF(t)
  \/ \E v \in Values : call_single_write_EF(t, v)

\* Task u is blocked in the condition wait of the single variable.
SingleBlocked(u) ==
  pc[u] = "single_cond_wait" /\ u \in singlevar.signal_full

\* Tasks are numbered in the order in which they invoke their macro
\* (tasks are interchangeable: every run is a renumbering of such a run).
InTurn(t) == \A u \in Tasks : u < t => pc[u] # "idle"

\* Calls on either cell are issued one after the other.
QuietAll(t) ==
  /\ InTurn(t)
  /\ \A u \in Tasks \ {t} :
       pc[u] \in {"idle", "done"} \/ Blocked(u) \/ SingleBlocked(u)

\* The internal fault of the lock-acquisition primitive: the mutex of the
\* cells is destroyed (or corrupted) while no task uses them.
DestroyMutex ==
  /\ valid
  /\ \A u \in Tasks : pc[u] \in {"idle", "done"}
  /\ syncvar.lock = {} /\ singlevar.lock = {}
  /\ valid' = FALSE
  /\ UNCHANGED <<syncvar, singlevar, stale, synced>>
  /\ UNCHANGED taskVars
  /\ UNCHANGED histVars

\* Operations on both cells, issued one after the other, before and after
\* the mutex becomes invalid.
NextFault ==
  \/ \E t \in Tasks : QuietAll(t) /\ SyncCall(t)
  \/ \E t \in Tasks : QuietAll(t) /\ SingleCall(t)
  \/ \E t \in Tasks : SyncStep(t)
  \/ \E t \in Tasks : SingleStep(t)
  \/ DestroyMutex

SpecFault == Init /\ [][NextFault]_vars

\* What a task does once it is inside _chpl_write_EF, _chpl_read_FE or
\* _chpl_sync_reset (a wait ending without a signal is possible, never
\* owed).
EmptyingProgress(t) ==
  \/ chpl_sync_lock(t)
  \/ chpl_sync_unlock(t)
  \/ chpl_sync_wait_full_and_lock(t)
  \/ chpl_sync_wait_empty_and_lock(t)
  \/ chpl_sync_mark_and_signal_full(t)
  \/ chpl_sync_mark_and_signal_empty(t)
  \/ _chpl_read_FE(t)
  \/ _chpl_write_EF(t)
  \/ _chpl_sync_reset(t)

\* Writers with writeEF, and the two operations that empty the cell.
NextEmptying ==
  \E t \in Tasks :
    \/ call_read_FE(t)
    \/ \E v \in Values : call_write_EF(t, v)
    \/ call_sync_reset(t)
    \/ EmptyingProgress(t)
    \/ SpuriousWakeup(t)

\* Fair scheduling: a task that can take a step again and again does.
SpecEmptying ==
  /\ Init /\ [][NextEmptying]_vars
  /\ \A t \in Tasks : SF_vars(EmptyingProgress(t))

\* The number of producers and of consumers of the balanced hand-off, and
\* the tasks taking part in it.
Pairs == NumTasks \div 2
Participant(t) == t <= 2 * Pairs

\* The number of tasks that have invoked macro o.
Invoked(o) == Cardinality({u \in Tasks : op[u] = o})

\* What a participant of the balanced hand-off does: it invokes writeEF or
\* readFE while that role is not taken Pairs times yet, and then goes
\* through the macro (a wait ending without a signal is possible, never
\* owed).
BalancedProgress(t) ==
  \/ /\ Participant(t) /\ Invoked("read_FE") < Pairs
     /\ call_read_FE(t)
  \/ /\ Participant(t) /\ Invoked("write_EF") < Pairs
     /\ \E v \in Values : call_write_EF(t, v)
  \/ chpl_sync_unlock(t)
  \/ chpl_sync_wait_full_and_lock(t)
  \/ chpl_sync_wait_empty_and_lock(t)
  \/ chpl_sync_mark_and_signal_full(t)
  \/ chpl_sync_mark_and_signal_empty(t)
  \/ _chpl_read_FE(t)
  \/ _chpl_write_EF(t)

\* Pairs producers with one writeEF each and Pairs consumers with one
\* readFE each, in any interleaving.
NextBalanced ==
  \E t \in Tasks : BalancedProgress(t) \/ SpuriousWakeup(t)

\* Fair scheduling: a task that can take a step again and again does.
SpecBalanced ==
  /\ Init /\ [][NextBalanced]_vars
  /\ \A t \in Tasks : SF_vars(BalancedProgress(t))

\* ================================================================ claims
InMacro(t, o) == op[t] = o /\ pc[t] \notin {"idle", "done", "aborted"}
Done(t, o)    == op[t] = o /\ pc[t] = "done"
AllDone       == \A t \in Tasks : pc[t] = "done"

\* C1: hand-off is exactly-once.  The values readFE returns are, in order,
\* the values writeEF stored: none is returned twice, none is skipped, and
\* at most one stored value is not returned yet (none is overwritten
\* before being read); whenever the lock is free the cell is Full exactly
\* if such a value is pending.
C1_ExactlyOnce ==
  /\ Len(taken) <= Len(stored)
  /\ \A i \in 1..Len(taken) : taken[i] = stored[i]
  /\ Len(stored) - Len(taken) <= 1
  /\ syncvar.lock = {} => (syncvar.is_full <=> Len(stored) = Len(taken) + 1)

\* Two producers and one consumer have all returned: the second producer
\* stored only after the first value was taken.
C1_Witness ==
  /\ AllDone
  /\ Len(stored) = 2 /\ Len(taken) = 1
  /\ stored[1] # stored[2]

\* C2: on a cell created Empty, writeEF(c, v) followed by readFE(c)
\* returns v and leaves c Empty.
C2_WriteThenRead ==
  \A w, r \in Tasks :
    (returned = <<w, r>> /\ Done(w, "write_EF") /\ Done(r, "read_FE")
       /\ \A u \in Tasks \ {w, r} : pc[u] = "idle")
    => (x[r] = y[w] /\ ~syncvar.is_full /\ syncvar.lock = {})

C2_Witness ==
  \E w, r \in Tasks :
    /\ returned = <<w, r>> /\ Done(w, "write_EF") /\ Done(r, "read_FE")
    /\ \A u \in Tasks \ {w, r} : pc[u] = "idle"
    /\ x[r] = 2

\* C3: the store of writeEF happens only while the cell is Empty and the
\* writer holds the lock, so a writeEF issued on a Full cell neither stores
\* nor returns before the cell was emptied; and only readFE and reset ever
\* turn a Full cell Empty.
C3_WriteEFWaitsForEmpty ==
  [][ /\ \A t \in Tasks :
           (op[t] = "write_EF" /\ pc[t] = "returned" /\ pc'[t] = "mark_full")
           => (~syncvar.is_full /\ syncvar.lock = {t})
      /\ \A t \in Tasks :
           (op[t] = "write_EF" /\ pc[t] # "done" /\ pc'[t] = "done")
           => \E i \in 1..Len(stored) : stored[i] = y[t]
      /\ (syncvar.is_full /\ ~syncvar'.is_full)
           => \E t \in Tasks : /\ op[t] \in {"read_FE", "sync_reset"}
                               /\ pc[t] = "mark_empty" ]_vars

\* A writeEF that found the cell Full has stored after a reset emptied it.
C3_Witness ==
  \E t \in Tasks :
    /\ Done(t, "sync_reset")
    /\ Len(stored) = 2 /\ taken = <<>>
    /\ \A u \in Tasks \ {t} : Done(u, "write_EF")

\* C4: after the one writeEF(c, v), every readFF(c) returns (none stays
\* blocked), each returns v, and c is Full when all have returned.
C4_ReadFFAllComplete ==
  /\ [](\A t \in Tasks : Done(t, "read_FF") =>
          \E w \in Tasks : op[w] = "write_EF" /\ x[t] = y[w])
  /\ []((AllDone /\ \E w \in Tasks : op[w] = "write_EF")
          => (syncvar.is_full /\ syncvar.lock = {}))
  /\ \A t \in Tasks :
       (op[t] = "read_FF" /\ \E w \in Tasks : op[w] = "write_EF")
         ~> (pc[t] = "done")

\* The writer and the readFF of every other task have all returned.
C4_Witness ==
  /\ AllDone
  /\ \E w \in Tasks :
       /\ op[w] = "write_EF"
       /\ \A t \in Tasks \ {w} : op[t] = "read_FF" /\ x[t] = y[w]

AlreadyDefined == "single var already defined"

\* C5: SingleCell double write.  The writeEF that finds the cell Empty
\* stores its value and makes the cell Full; a writeEF that reports the
\* recoverable error changes neither value nor state; and every writeEF
\* issued on a cell that is already Full reports that error.
C5_DoubleWrite ==
  /\ [][\A t \in Tasks :
          (err'[t] # err[t] /\ err'[t] # "")
          => /\ err'[t] = AlreadyDefined
             /\ singlevar.is_full /\ singlevar'.is_full
             /\ singlevar'.value = singlevar.value]_vars
  /\ \A t \in Tasks :
       (op[t] = "single_write_EF" /\ pc[t] = "single_lock"
          /\ singlevar.is_full)
         ~> (err[t] = AlreadyDefined)

\* C6: SingleCell is write-once.  Between two resets at most one writeEF
\* stores and turns the cell Full, even with concurrent writers; and while
\* the cell stays Full its value does not change.
C6_WriteOnce ==
  [][ /\ swrites' <= 1
      /\ (singlevar.is_full /\ singlevar'.is_full)
           => singlevar'.value = singlevar.value
      /\ (~singlevar.is_full /\ singlevar'.is_full)
           => \E t \in Tasks : /\ op[t] = "single_write_EF"
                               /\ singlevar.value = y[t]
                               /\ swrites = 1 ]_vars

\* Two writers raced: one stored, the other was turned away.
C6_Witness ==
  \E t, u \in Tasks :
    /\ t # u
    /\ Done(t, "single_write_EF") /\ Done(u, "single_write_EF")
    /\ err[t] = "" /\ err[u] = AlreadyDefined
    /\ y[t] # y[u]
    /\ singlevar.is_full /\ singlevar.value = y[t]
    /\ swrites = 1

\* The one task that writes the single variable, if there is exactly one.
OnlyWriter(w) ==
  /\ op[w] = "single_write_EF"
  /\ \A u \in Tasks \ {w} : op[u] # "single_write_EF"

\* C7: a SingleCell readFF does not return before a writeEF has made the
\* cell Full; once the writeEF(s, v) has stored, every readFF (blocked
\* earlier or issued later) eventually returns, and returns v.
C7_ReadFFAfterWrite ==
  /\ [][\A t \in Tasks :
          (op[t] = "single_read_FF" /\ pc[t] # "done" /\ pc'[t] = "done")
          => singlevar.is_full]_vars
  /\ [](\A t, w \in Tasks :
          (Done(t, "single_read_FF") /\ OnlyWriter(w)) => x[t] = y[w])
  /\ \A t \in Tasks :
       (op[t] = "single_read_FF" /\ swrites = 1
          /\ \E w \in Tasks : OnlyWriter(w))
         ~> (pc[t] = "done")

SyncOps ==
  {"read_FE", "read_FF", "read_XX", "write_EF", "write_FF", "write_XF",
   "sync_reset"}

\* Task t is at a statement that reads or writes the SyncCell's value or
\* its fullness state: the test of a wait loop, the macro's access to
\* value, the marking, up to the release of the lock.
Accessing(t) ==
  /\ op[t] \in SyncOps
  /\ \/ pc[t] \in {"wait_full", "wait_empty", "mark_full", "mark_empty",
                   "sync_unlock"}
     \/ pc[t] = "returned" /\ rv[t] = 0

\* C8: lock discipline.  A task that reads or writes the SyncCell's value
\* or fullness state inside any of the seven operations holds the lock,
\* and at most one task holds the lock.
C8_LockDiscipline ==
  /\ Cardinality(syncvar.lock) <= 1
  /\ \A t \in Tasks : Accessing(t) => syncvar.lock = {t}

\* One task is about to access the value while another is kept out at the
\* lock.
C8_Witness ==
  \E t, u \in Tasks :
    /\ t # u
    /\ pc[t] = "returned" /\ rv[t] = 0 /\ op[t] = "write_XF"
    /\ pc[u] = "sync_lock" /\ op[u] = "read_XX"

\* The task whose call returned latest.
LastReturned == returned[Len(returned)]

\* No call is under way, except calls blocked in a condition wait.
NoneRunning ==
  \A u \in Tasks : pc[u] \in {"idle", "done"} \/ Blocked(u)

\* C9: writeFF(c, v2) on a Full cell sets value to v2 and leaves the state
\* Full; the readFF that follows returns v2 and is not made to wait.  The
\* assignment of writeFF is only taken while the cell is Full, so on an
\* Empty cell it waits for another operation to fill the cell.
C9_WriteFF ==
  /\ \A t \in Tasks :
       (op[t] = "write_FF" /\ pc[t] = "returned" /\ rv[t] = 0)
       => (syncvar.is_full /\ syncvar.lock = {t})
  /\ (returned # <<>> /\ op[LastReturned] = "write_FF")
       => /\ NoneRunning =>
               (syncvar.is_full /\ syncvar.value = y[LastReturned])
          /\ \A t \in Tasks : op[t] = "read_FF" => ~Blocked(t)
  /\ \A i \in 2..Len(returned) :
       (op[returned[i]] = "read_FF" /\ op[returned[i-1]] = "write_FF")
       => x[returned[i]] = y[returned[i-1]]

\* writeEF(v), then writeFF(v2) with v2 # v, then readFF returning v2.
C9_Witness ==
  /\ Len(returned) = 3
  /\ op[returned[1]] = "write_EF"
  /\ op[returned[2]] = "write_FF"
  /\ op[returned[3]] = "read_FF"
  /\ y[returned[1]] # y[returned[2]]
  /\ x[returned[3]] = y[returned[2]]
  /\ syncvar.is_full

\* C10: reset never waits for a fullness state, and whatever the state and
\* value were, it leaves the cell Empty with the default value.
C10_Reset ==
  /\ \A t \in Tasks :
       op[t] = "sync_reset" =>
         /\ pc[t] \in {"sync_lock", "returned", "mark_empty", "sync_unlock",
                       "done", "aborted"}
         /\ t \notin syncvar.signal_full \cup syncvar.signal_empty
         /\ pc[t] = "mark_empty" =>
              (syncvar.value = DefaultValue /\ syncvar.lock = {t})
         /\ pc[t] = "sync_unlock" =>
              (syncvar.value = DefaultValue /\ ~syncvar.is_full
                 /\ syncvar.lock = {t})
  /\ (returned # <<>> /\ op[LastReturned] = "sync_reset"
        /\ syncvar.lock = {})
       => (syncvar.value = DefaultValue /\ ~syncvar.is_full)

\* A reset has returned right after a writeXF that had filled the cell.
C10_Witness ==
  \E w, t \in Tasks :
    /\ returned = <<w, t>>
    /\ op[w] = "write_XF" /\ op[t] = "sync_reset"
    /\ syncvar.lock = {}

\* C11: readFE changes only the fullness state and leaves the stored value
\* untouched; readXX stores the cell's value in its destination whatever
\* the state is and changes neither value nor state.  After writeEF(v), a
\* readFE returning v and then a readXX, the readXX has returned v as
\* well, and the cell is Empty with value v until a further operation is
\* invoked.
C11_ReadFrame ==
  [][ /\ \A t \in Tasks :
           /\ (op'[t] = "read_FE" /\ pc'[t] # pc[t])
                => syncvar'.value = syncvar.value
           /\ (op'[t] = "read_XX" /\ pc'[t] # pc[t])
                => /\ syncvar'.value = syncvar.value
                   /\ syncvar'.is_full = syncvar.is_full
           /\ (op[t] = "read_XX" /\ pc[t] = "returned" /\ rv[t] = 0
                 /\ pc'[t] # pc[t])
                => x'[t] = syncvar.value
      /\ \A w, r, q \in Tasks :
           (/\ returned' = <<w, r, q>>
            /\ op'[w] = "write_EF" /\ op'[r] = "read_FE"
            /\ op'[q] = "read_XX")
           => /\ x'[r] = y'[w] /\ x'[q] = y'[w]
              /\ (\A u \in Tasks \ {w, r, q} : pc'[u] = "idle")
                   => (syncvar'.value = y'[w] /\ ~syncvar'.is_full)
    ]_vars

\* writeEF(2), readFE and readXX have returned in this order, both reads
\* with 2, and the cell is Empty.
C11_Witness ==
  \E w, r, q \in Tasks :
    /\ returned = <<w, r, q>>
    /\ op[w] = "write_EF" /\ op[r] = "read_FE" /\ op[q] = "read_XX"
    /\ y[w] = 2 /\ x[r] = 2 /\ x[q] = 2
    /\ ~syncvar.is_full /\ syncvar.lock = {}

\* The macros that read, and the macros that write or reset.
ReadOps == {"read_FE", "read_FF", "read_XX", "single_read_FF"}
WriteOps == {"write_EF", "write_FF", "write_XF", "sync_reset",
             "single_write_EF"}

\* The message of the fatal error macro o raises on a lock fault.
InvalidMutex(o) == "invalid mutex in _chpl_" \o o

\* C12: when the lock acquisition of a macro reports a fault (non-zero
\* return), a write macro or reset raises the fatal internal error naming
\* the macro and changes neither value nor state of a cell; a read macro
\* returns normally, with its destination, the values and the states
\* unchanged.  A fatal error is only raised that way.
C12_LockFault ==
  [][ /\ \A t \in Tasks :
           /\ (rv[t] = 0 /\ rv'[t] # 0)
                => (x' = x /\ syncvar' = syncvar /\ singlevar' = singlevar)
           /\ (pc[t] = "returned" /\ rv[t] # 0 /\ pc'[t] # pc[t])
                => /\ x' = x /\ syncvar' = syncvar /\ singlevar' = singlevar
                   /\ op[t] \in ReadOps \cup WriteOps
                   /\ op[t] \in ReadOps
                        => (pc'[t] = "done" /\ fatal' = "" /\ err' = err)
                   /\ op[t] \in WriteOps
                        => (pc'[t] = "aborted"
                              /\ fatal' = InvalidMutex(op[t]))
           /\ (rv'[t] # 0 /\ op'[t] \in ReadOps)
                => x'[t] = DefaultValue
      /\ (fatal = "" /\ fatal' # "")
           => \E t \in Tasks :
                /\ op[t] \in WriteOps /\ pc[t] = "returned" /\ rv[t] # 0
                /\ fatal' = InvalidMutex(op[t])
    ]_vars

\* A writeEF filled the sync variable, the mutex became invalid, a readFE
\* came back without a value and a SingleCell writeEF raised the fatal
\* error.
C12_Witness ==
  \E r \in Tasks :
    /\ op[r] = "read_FE" /\ rv[r] # 0 /\ x[r] = DefaultValue
    /\ Len(returned) = 2 /\ returned[2] = r
    /\ syncvar.is_full /\ syncvar.value = 2
    /\ fatal = "invalid mutex in _chpl_single_write_EF"

\* The SyncCell macros whose locking call waits for a fullness state, and
\* those whose locking call is chpl_sync_lock.
WaitingOps == {"read_FE", "read_FF", "write_EF", "write_FF"}
NonWaitingOps == {"read_XX", "write_XF", "sync_reset"}

\* C13: only readFE, readFF, writeEF, writeFF and the slow path of the
\* SingleCell readFF are ever inside a wait for a fullness state.  readXX,
\* writeXF and reset can take their next step in every cell state as soon
\* as the lock is free, and the lock-free is_full check of the SingleCell
\* readFF can always be taken.  writeXF leaves the cell Full with its
\* argument as value, from Empty and from Full.
C13_WhoWaits ==
  /\ \A t \in Tasks :
       /\ (\/ pc[t] \in {"wait_full_and_lock", "wait_full", "cond_wait_full",
                         "wait_empty_and_lock", "wait_empty",
                         "cond_wait_empty"}
           \/ t \in syncvar.signal_full \cup syncvar.signal_empty)
            => op[t] \in WaitingOps
       /\ (\/ pc[t] \in {"single_wait_full", "single_test_full",
                         "single_cond_wait"}
           \/ t \in singlevar.signal_full)
            => op[t] = "single_read_FF"
       /\ (/\ op[t] \in NonWaitingOps
           /\ pc[t] \notin {"idle", "done", "aborted"}
           /\ (pc[t] = "sync_lock" /\ valid) => syncvar.lock = {})
            => ENABLED SyncStep(t)
       /\ pc[t] = "single_is_full" => ENABLED _chpl_single_read_FF(t)
       /\ (op[t] = "write_XF" /\ pc[t] = "sync_unlock")
            => (syncvar.is_full /\ syncvar.value = y[t]
                  /\ syncvar.lock = {t})
  /\ (returned # <<>> /\ op[LastReturned] = "write_XF" /\ NoneRunning)
       => (syncvar.is_full /\ syncvar.value = y[LastReturned])

\* writeXF(1) on the Empty cell and writeXF(2) on the Full cell have
\* returned while a writeEF is blocked waiting for Empty.
C13_Witness ==
  \E a, b, w \in Tasks :
    /\ returned = <<a, b>>
    /\ op[a] = "write_XF" /\ y[a] = 1
    /\ op[b] = "write_XF" /\ y[b] = 2
    /\ op[w] = "write_EF" /\ Blocked(w)
    /\ syncvar.is_full /\ syncvar.value = 2 /\ syncvar.lock = {}

\* C14: a macro that has returned to its caller holds the lock of neither
\* cell, on every path, the path of _chpl_single_write_EF that reports
\* "single var already defined" included.
C14_LockReleased ==
  \A t \in Tasks :
    pc[t] = "done" => t \notin syncvar.lock \cup singlevar.lock

\* C15: wake-ups are broadcasts.  When a macro that makes or re-marks the
\* cell Full (writeEF, writeFF, writeXF, readFF) is about to release the
\* lock, no task is left waiting un-woken on condFull; when a macro that
\* makes it Empty (readFE, reset) is about to release the lock, no task is
\* left waiting un-woken on condEmpty.  So whenever the lock is free, no
\* task waits un-woken for the state the cell is in.
C15_Broadcast ==
  /\ \A t \in Tasks :
       pc[t] = "sync_unlock" =>
         /\ op[t] \in {"write_EF", "write_FF", "write_XF", "read_FF"}
              => (syncvar.is_full /\ syncvar.signal_full = {})
         /\ op[t] \in {"read_FE", "sync_reset"}
              => (~syncvar.is_full /\ syncvar.signal_empty = {})
  /\ syncvar.lock = {} =>
       /\ syncvar.is_full => syncvar.signal_full = {}
       /\ ~syncvar.is_full => syncvar.signal_empty = {}

\* A writeEF is about to release the lock and the two readFF that were
\* waiting on condFull are both woken.
C15_Witness ==
  \E t, u, v \in Tasks :
    /\ u # v
    /\ op[t] = "write_EF" /\ pc[t] = "sync_unlock"
    /\ op[u] = "read_FF" /\ pc[u] = "cond_wait_full"
    /\ op[v] = "read_FF" /\ pc[v] = "cond_wait_full"
    /\ syncvar.signal_full = {}

\* C16: whenever readFE, readFF or writeFF is at its access to the value,
\* after chpl_sync_wait_full_and_lock returned 0, the cell is Full and the
\* task is the holder of the lock, however many waiters the same broadcast
\* woke and whether or not the wake-up was owed; so at most one task is at
\* such an access, and a readFE woken after the value was taken is not.
C16_WaitPostcondition ==
  /\ \A t \in Tasks :
       (op[t] \in {"read_FE", "read_FF", "write_FF"}
          /\ pc[t] = "returned" /\ rv[t] = 0)
       => (syncvar.is_full /\ syncvar.lock = {t})
  /\ \A t, u \in Tasks :
       (/\ op[t] = "read_FE" /\ pc[t] \in {"returned", "mark_empty"}
        /\ op[u] = "read_FE" /\ pc[u] \in {"returned", "mark_empty"})
       => t = u

\* One writeEF, two readFE: one readFE has returned the value, the other
\* holds the lock in the wait loop and finds the cell Empty.
C16_Witness ==
  \E w, r, q \in Tasks :
    /\ r # q
    /\ Done(w, "write_EF") /\ Done(r, "read_FE") /\ x[r] = y[w]
    /\ op[q] = "read_FE" /\ pc[q] = "wait_full"
    /\ syncvar.lock = {q} /\ ~syncvar.is_full

\* C17: under fair scheduling a writeEF that has not returned while the
\* cell is Empty (in particular one that was blocked on a Full cell that
\* a readFE or a reset has emptied since) eventually returns, unless
\* another writer makes the cell Full first.
C17_BlockedWriterCompletes ==
  \A t \in Tasks :
    (InMacro(t, "write_EF") /\ ~syncvar.is_full)
      ~> (pc[t] = "done" \/ (syncvar.is_full /\ pc[t] # "sync_unlock"))

\* A writeEF in the wait for Empty has been woken by a reset that emptied
\* the cell.
C17_Witness ==
  \E t, s \in Tasks :
    /\ op[t] = "write_EF" /\ pc[t] = "cond_wait_empty"
    /\ t \notin syncvar.signal_empty
    /\ op[s] = "sync_reset" /\ pc[s] = "sync_unlock"
    /\ ~syncvar.is_full

\* C18: the fast path of the SingleCell readFF (the lock-free is_full
\* check said Full) returns without touching the lock, and with no reset
\* around the value it returns is the value the one storing writeEF
\* stored, never the default.
C18_FastPath ==
  [][\A t \in Tasks :
       (pc[t] = "single_fast_read" /\ pc'[t] = "done")
       => /\ singlevar' = singlevar
          /\ swrites = 1
          /\ x'[t] = singlevar.value
          /\ x'[t] # DefaultValue]_vars

\* C19: reset recycles the single variable.  When no task is inside a
\* macro and the cell is Empty (it is new, or it has been reset), the cell
\* is as a freshly created one, whatever was done with it before: default
\* value, lock free, nobody waiting; so the next writeEF can store.
C19_ResetRecycles ==
  ((\A u \in Tasks : pc[u] \in {"idle", "done"}) /\ ~singlevar.is_full)
    => singlevar = [value |-> DefaultValue, is_full |-> FALSE,
                    lock |-> {}, signal_full |-> {}]

====
